---- MODULE Spec2Model ----
(***************************************************************************)
(* A model of labchain's peer protocol (src/src/protocol.py) and of its    *)
(* block validation (src/src/block.py).                                    *)
(*                                                                         *)
(* Threads are modelled at the granularity of the statements that touch    *)
(* shared state: one action per statement of PeerConnection.run, of the    *)
(* close_on_error wrapper, of send_msg as called by the application, and   *)
(* of the creators of connections.                                         *)
(***************************************************************************)
EXTENDS Integers, Sequences, FiniteSets, TLC

(***************************************************************************)
(* Program constants                                                       *)
(***************************************************************************)
MAX_PEERS == 10

\* b"bl0ckch41n"
HELLO_MSG == <<98, 108, 48, 99, 107, 99, 104, 52, 49, 110>>

(***************************************************************************)
(* Bounds of the model                                                     *)
(***************************************************************************)
\* calls the application makes (broadcast_primary_block, send_block_request)
MaxOps == 2
\* block-received callbacks the application registers
MaxHandlers == 1
\* failures the environment causes: a refused or reset connection, a wrong
\* or missing handshake token, a timeout, a remote end that closes
MaxFailures == 1
\* connections constructed beyond MAX_PEERS
ExtraConns == 2
\* transactions in a block
MaxTxs == 3
\* nonces of the blocks a node is given: 0..MaxNonce
MaxNonce == 1
\* difficulties of the blocks a node is given, and of the chain: 0..MaxDifficulty
MaxDifficulty == 2
\* block rewards of the chain: 0..MaxReward
MaxReward == 1
\* blocks of a chain, the genesis block included
MaxChain == 2
\* frames a host of the environment sends
MaxFrames == 2

(***************************************************************************)
(* Python values                                                           *)
(***************************************************************************)
\* A Python value with its type: == between values of different types is False.
PyInt(n) == [int |-> n]
PyStr(s) == [str |-> s]
PyEq(a, b) ==
    /\ DOMAIN a = DOMAIN b
    /\ a = b
PyNe(a, b) == ~PyEq(a, b)

\* JSON-compatible values
JNum(n) == [num |-> n]
JStr(s) == [jstr |-> s]
JList(l) == [list |-> l]
JObj(o) == [obj |-> o]

\* None, as put on a queue
NoneItem == [none |-> TRUE]

Last(s) == s[Len(s)]
Min(a, b) == IF a < b THEN a ELSE b
Take(s, k) == SubSeq(s, 1, Min(k, Len(s)))
Drop(s, k) == SubSeq(s, Min(k, Len(s)) + 1, Len(s))
IsPrefix(s, t) == Len(s) <= Len(t) /\ SubSeq(t, 1, Len(s)) = s
Range(s) == {s[i] : i \in 1..Len(s)}
\* list.remove(x): removes the first occurrence
RemoveFirst(s, x) ==
    LET i == CHOOSE k \in 1..Len(s) : s[k] = x /\ \A j \in 1..(k - 1) : s[j] # x
    IN  SubSeq(s, 1, i - 1) \o SubSeq(s, i + 1, Len(s))

(***************************************************************************)
(* binascii.hexlify / unhexlify: a byte is two hexadecimal digits          *)
(***************************************************************************)
RECURSIVE hexlify(_)
hexlify(bs) ==
    IF bs = <<>> THEN <<>>
    ELSE <<bs[1] \div 16, bs[1] % 16>> \o hexlify(Tail(bs))

RECURSIVE unhexlify(_)
unhexlify(hs) ==
    IF Len(hs) < 2 THEN <<>>
    ELSE <<hs[1] * 16 + hs[2]>> \o unhexlify(Tail(Tail(hs)))

(***************************************************************************)
(* datetime and timedelta: whole seconds and microseconds.  The format     *)
(* "%Y-%m-%dT%H:%M:%S.%f UTC" writes the date and time of day, here the    *)
(* whole seconds in decimal, a dot, and the microseconds in six digits.    *)
(***************************************************************************)
datetime(seconds, microsecond) == [s |-> seconds, us |-> microsecond]
timedelta(seconds, microseconds) == [s |-> seconds, us |-> microseconds]
timedelta_hours(h) == timedelta(3600 * h, 0)
dt_add(t, d) ==
    LET us == t.us + d.us
    IN  datetime(t.s + d.s + us \div 1000000, us % 1000000)
dt_sub(t, d) ==
    LET us == t.us - d.us
    IN  IF us >= 0 THEN datetime(t.s - d.s, us)
        ELSE datetime(t.s - d.s - 1, us + 1000000)
dt_le(a, b) == a.s < b.s \/ (a.s = b.s /\ a.us <= b.us)
dt_gt(a, b) == ~dt_le(a, b)

RECURSIVE Digits(_)
Digits(n) == IF n < 10 THEN <<48 + n>> ELSE Digits(n \div 10) \o <<48 + (n % 10)>>

RECURSIVE ParseDigits(_)
ParseDigits(ds) ==
    IF ds = <<>> THEN 0
    ELSE 10 * ParseDigits(SubSeq(ds, 1, Len(ds) - 1)) + (ds[Len(ds)] - 48)

RECURSIVE ZeroPad(_, _)
ZeroPad(ds, width) == IF Len(ds) >= width THEN ds ELSE ZeroPad(<<48>> \o ds, width)

strftime(t) == Digits(t.s) \o <<46>> \o ZeroPad(Digits(t.us), 6)
strptime(str) ==
    LET dot == CHOOSE i \in 1..Len(str) : str[i] = 46
    IN  datetime(ParseDigits(SubSeq(str, 1, dot - 1)), ParseDigits(SubSeq(str, dot + 1, Len(str))))

(***************************************************************************)
(* Block._int_to_bytes and the header hash                                 *)
(***************************************************************************)
RECURSIVE bit_length(_)
bit_length(val) == IF val = 0 THEN 0 ELSE 1 + bit_length(val \div 2)

RECURSIVE to_bytes_little(_, _)
to_bytes_little(val, l) ==
    IF l = 0 THEN <<>>
    ELSE <<val % 256>> \o to_bytes_little(val \div 256, l - 1)

_int_to_bytes(val) ==
    LET l == bit_length(val) + 1
    IN  to_bytes_little(l, 8) \o to_bytes_little(val, l)

\* crypto.get_hasher(): update() appends to the hashed stream; the digest
\* is taken to be collision free, so it is the stream itself.
hasher_digest(stream) == stream

get_partial_hash(prev_block_hash, merkle_root_hash, time, difficulty) ==
    prev_block_hash \o merkle_root_hash \o strftime(time) \o _int_to_bytes(difficulty)

finish_hash(hasher, nonce) == hasher_digest(hasher \o _int_to_bytes(nonce))

_get_hash(prev_block_hash, merkle_root_hash, time, difficulty, nonce) ==
    finish_hash(get_partial_hash(prev_block_hash, merkle_root_hash, time, difficulty), nonce)

\* Block.__init__
Block(prev_block_hash, time, nonce, height, difficulty, transactions, merkle_root_hash) ==
    [prev_block_hash |-> prev_block_hash,
     merkle_root_hash |-> merkle_root_hash,
     time |-> time,
     nonce |-> nonce,
     height |-> height,
     difficulty |-> difficulty,
     transactions |-> transactions,
     hash |-> _get_hash(prev_block_hash, merkle_root_hash, time, difficulty, nonce)]

\* Transaction.to_json_compatible / from_json_compatible (transaction.py)
transaction_to_json(t) == JObj(t)
transaction_from_json(j) == j.obj

to_json_compatible(b) ==
    JObj([prev_block_hash |-> JStr(hexlify(b.prev_block_hash)),
          merkle_root_hash |-> JStr(hexlify(b.merkle_root_hash)),
          time |-> JStr(strftime(b.time)),
          nonce |-> JNum(b.nonce),
          height |-> JNum(b.height),
          difficulty |-> JNum(b.difficulty),
          transactions |-> JList([i \in 1..Len(b.transactions) |->
                                    transaction_to_json(b.transactions[i])])])

from_json_compatible(val) ==
    Block(unhexlify(val.obj.prev_block_hash.jstr),
          strptime(val.obj.time.jstr),
          val.obj.nonce.num,
          val.obj.height.num,
          val.obj.difficulty.num,
          [i \in 1..Len(val.obj.transactions.list) |->
              transaction_from_json(val.obj.transactions.list[i])],
          unhexlify(val.obj.merkle_root_hash.jstr))

(***************************************************************************)
(* The protocol: state                                                     *)
(***************************************************************************)
\* Nodes A and B run a Protocol; any other host is the environment.
Nodes == {"A", "B"}
EnvHost == "remote"
\* The listening address of a node: (host, port)
ListenPort(n) == IF n = "A" THEN 8001 ELSE 8002
ListenAddr(n) == <<n, ListenPort(n)>>
Threads == {"run", "reader"}

VARIABLES
    peers,      \* peers[n]: Protocol.peers, a list of connections
    primary,    \* primary[n]: Protocol._primary_block
    handlers,   \* handlers[n]: Protocol.block_receive_handlers
    fired,      \* fired[n]: the calls of the block-received callbacks so far
    conn,       \* conn[c]: the fields of PeerConnection c
    thr,        \* thr[c]: where c's threads are, and their local variables
    net,        \* net[c]: the bytes in flight towards c, and c's remote end
    hist,       \* hist[c]: the messages send_msg has enqueued, and those
                \* whose frames the writer has written
    app,        \* app[n]: the application thread calling into the Protocol
    srv,        \* srv[n]: the server thread (IncomingHandler.handle)
    boot,       \* boot[n]: Protocol.__init__ from line 185 on
    nfail,      \* the number of failures the environment has caused so far
    bc,         \* the chain view of a node, and the block it is verifying
    rx          \* the receiving side: the transaction callbacks and block
                \* providers of each node, the messages the environment has
                \* sent, the handler calls in progress, and the connections
                \* received_peer has opened

\* The connections constructed so far, numbered in the order of construction
ConnIds == DOMAIN conn
AllConnIds == 1..(MAX_PEERS + ExtraConns)
nconns == Len(conn)

vars == <<peers, primary, handlers, fired, conn, thr, net, hist, app, srv, boot, nfail, bc, rx>>

NoThr == [run |-> "none", reader |-> "none", hello |-> <<>>, item |-> NoneItem, buf |-> <<>>, idx |-> 0]
NoNet == [inbox |-> <<>>, link |-> 0, unsent |-> <<>>]
NoHist == [accepted |-> <<>>, written |-> <<>>]
\* start and sent record, for the call in progress, the connections that
\* were connected and in the peer table when it began and those it has
\* enqueued a message on.
IdleApp ==
    [pc |-> "idle", op |-> "none", i |-> 0, cur |-> 0, arg |-> NoneItem, calls |-> 0,
     start |-> {}, sent |-> <<>>]

\* PeerConnection.__init__: the fields, and the thread running run()
NewConn(n, addr, sock) ==
    [proto |-> n, _sock_addr |-> addr, socket |-> sock, is_connected |-> FALSE,
     outgoing_msgs |-> <<>>, peer_addr |-> NoneItem]
NewThr == [NoThr EXCEPT !.run = "run"]

\* Protocol.__init__, lines 166-167: no transaction callback and no block
\* provider is registered; nothing was received so far
NoRx ==
    [trans_receive_handlers |-> [n \in Nodes |-> <<>>],
     block_request_handlers |-> [n \in Nodes |-> <<>>],
     trans_fired |-> [n \in Nodes |-> <<>>],
     consulted |-> [n \in Nodes |-> <<>>],
     remote |-> <<>>,
     opened |-> <<>>,
     call |-> <<>>]

(***************************************************************************)
(* Blocks the nodes exchange                                               *)
(***************************************************************************)
\* merkle_tree(transactions).get_hash() (merkle.py): taken to be collision
\* free, the number of transactions and their identities
merkle_root(transactions) ==
    <<Len(transactions)>> \o [i \in 1..Len(transactions) |-> transactions[i].id]

\* lines 204-211.  GENESIS_DIFFICULTY is a constant of proof_of_work.py.
GenesisPrev == <<78>>
GENESIS_DIFFICULTY == 1
GENESIS_BLOCK ==
    Block(GenesisPrev, datetime(0, 922898), 0, 0, GENESIS_DIFFICULTY, <<>>, merkle_root(<<>>))
GENESIS_BLOCK_HASH == GENESIS_BLOCK.hash

\* The block node n starts with, and the blocks its application broadcasts
StartBlock(n) ==
    Block(GENESIS_BLOCK_HASH, datetime(1, ListenPort(n)), 0, 1, 1, <<>>, merkle_root(<<>>))
NewBlocks(n) ==
    {Block(StartBlock(n).hash, datetime(1 + k, ListenPort(n)), k, 2, 1, <<>>, merkle_root(<<>>)) :
        k \in 1..1}

Msg(msg_type, msg_param) == [msg_type |-> msg_type, msg_param |-> msg_param]

(***************************************************************************)
(* Protocol.__init__ up to line 182: the server listens, nothing is        *)
(* connected yet                                                           *)
(***************************************************************************)
InitNode(ns) ==
    /\ peers = [n \in Nodes |-> <<>>]
    /\ primary = [n \in Nodes |-> to_json_compatible(StartBlock(n))]
    /\ handlers = [n \in Nodes |-> <<>>]
    /\ fired = [n \in Nodes |-> <<>>]
    /\ conn = <<>>
    /\ thr = <<>>
    /\ net = <<>>
    /\ hist = <<>>
    /\ app = [n \in Nodes |-> IdleApp]
    /\ srv = [n \in Nodes |-> [pc |-> "idle", c |-> 0, backlog |-> <<>>, from |-> 0]]
    /\ boot = [n \in Nodes |-> [pc |-> IF n \in ns THEN "construct" ELSE "off", c |-> 0]]
    /\ nfail = 0
    /\ rx = NoRx

(***************************************************************************)
(* The creators of connections                                             *)
(***************************************************************************)
\* The address a node bootstraps from: node B from node A, node A from a
\* host of the environment.
BootstrapPeer(n) == IF n = "B" THEN ListenAddr("A") ELSE <<EnvHost, 8000>>
EphemeralPort(c) == 5000 + c

\* Protocol.__init__, line 185: PeerConnection(bootstrap_peer, self) ...
BootstrapConstruct(n) ==
    /\ boot[n].pc = "construct"
    /\ LET c == nconns + 1 IN
        /\ conn' = Append(conn, NewConn(n, BootstrapPeer(n), "none"))
        /\ thr' = Append(thr, NewThr)
        /\ net' = Append(net, NoNet)
        /\ hist' = Append(hist, NoHist)
        /\ boot' = [boot EXCEPT ![n] = [pc |-> "append", c |-> c]]
    /\ UNCHANGED <<bc, rx, peers, primary, handlers, fired, app, srv, nfail>>

\* ... and self.peers.append of it
BootstrapAppend(n) ==
    /\ boot[n].pc = "append"
    /\ peers' = [peers EXCEPT ![n] = Append(@, boot[n].c)]
    /\ boot' = [boot EXCEPT ![n].pc = "done"]
    /\ UNCHANGED <<bc, rx, primary, handlers, fired, conn, thr, net, hist, app, srv, nfail>>

\* The admission test of IncomingHandler.handle, line 175
HandleRejects(n) == Len(peers[n]) > MAX_PEERS

\* IncomingHandler.handle, lines 175-177, for the next inbound connection:
\* the one connection from opened (the head of the backlog), or, with from
\* 0, one of the environment.
AcceptCheck(n, from) ==
    /\ srv[n].pc = "idle"
    /\ boot[n].pc # "off"
    /\ nconns < MAX_PEERS + ExtraConns
    /\ IF from = 0 THEN srv[n].backlog = <<>>
       ELSE srv[n].backlog # <<>> /\ from = Head(srv[n].backlog)
    /\ srv' = [srv EXCEPT ![n] =
                  [pc |-> IF HandleRejects(n) THEN "idle" ELSE "construct",
                   c |-> 0,
                   backlog |-> IF from = 0 THEN @.backlog ELSE Tail(@.backlog),
                   from |-> IF HandleRejects(n) THEN 0 ELSE from]]
    /\ UNCHANGED <<bc, rx, peers, primary, handlers, fired, conn, thr, net, hist, app, boot, nfail>>

\* line 179: conn = PeerConnection(self.client_address, self.proto, self.request)
AcceptConstruct(n) ==
    /\ srv[n].pc = "construct"
    /\ LET c == nconns + 1
           from == srv[n].from
           addr == IF from = 0 THEN <<EnvHost, EphemeralPort(c)>>
                   ELSE <<conn[from].proto, EphemeralPort(from)>>
       IN
        /\ conn' = Append(conn, NewConn(n, addr, "open"))
        /\ thr' = Append(thr, NewThr)
        /\ net' = IF from = 0 THEN Append(net, NoNet)
                  ELSE [Append(net, [NoNet EXCEPT !.inbox = net[from].unsent, !.link = from])
                          EXCEPT ![from] = [@ EXCEPT !.link = c, !.unsent = <<>>]]
        /\ hist' = Append(hist, NoHist)
        /\ srv' = [srv EXCEPT ![n].pc = "append", ![n].c = c]
    /\ UNCHANGED <<bc, rx, peers, primary, handlers, fired, app, boot, nfail>>

\* line 180: self.proto.peers.append(conn)
AcceptAppend(n) ==
    /\ srv[n].pc = "append"
    /\ peers' = [peers EXCEPT ![n] = Append(@, srv[n].c)]
    /\ srv' = [srv EXCEPT ![n].pc = "idle", ![n].c = 0, ![n].from = 0]
    /\ UNCHANGED <<bc, rx, primary, handlers, fired, conn, thr, net, hist, app, boot, nfail>>

(***************************************************************************)
(* PeerConnection.run                                                      *)
(***************************************************************************)
\* socket.sendall(bytes) on c's socket: the bytes reach the remote end's
\* receive buffer; what is sent to the environment is not kept.
Deliver(netf, c, bytes) ==
    IF netf[c].link # 0 THEN [netf EXCEPT ![netf[c].link].inbox = @ \o bytes]
    ELSE IF conn[c]._sock_addr[1] \in Nodes /\ conn[c]._sock_addr[1] # conn[c].proto
         THEN [netf EXCEPT ![c].unsent = @ \o bytes]
    ELSE netf

\* Whether c's remote end is the environment
RemoteIsEnv(c) == conn[c]._sock_addr[1] = EnvHost

\* lines 53-54: create_connection, for an outbound connection
RunConnect(c) ==
    /\ c \in ConnIds
    /\ thr[c].run = "run"
    /\ thr' = [thr EXCEPT ![c].run = "hello"]
    /\ IF conn[c].socket = "none"
       THEN /\ conn' = [conn EXCEPT ![c].socket = "open"]
            /\ srv' = IF RemoteIsEnv(c) THEN srv
                      ELSE [srv EXCEPT ![conn[c]._sock_addr[1]].backlog = Append(@, c)]
       ELSE UNCHANGED <<conn, srv, nfail>>
    /\ UNCHANGED <<bc, rx, peers, primary, handlers, fired, net, hist, app, boot, nfail>>

\* line 55: self.socket.sendall(HELLO_MSG)
RunSendHello(c) ==
    /\ c \in ConnIds
    /\ thr[c].run = "hello"
    /\ thr' = [thr EXCEPT ![c].run = "hs"]
    /\ net' = Deliver(net, c, HELLO_MSG)
    /\ UNCHANGED <<bc, rx, peers, primary, handlers, fired, conn, hist, app, srv, boot, nfail>>

\* What recv(len(HELLO_MSG)) can return on a connection to the environment:
\* the token, a short read of it, another token, nothing (the remote closed)
HandshakeReplies ==
    {HELLO_MSG, Take(HELLO_MSG, 3), [i \in 1..Len(HELLO_MSG) |-> 48], <<>>}

\* The test of line 56
HandshakeOk(data) == data = HELLO_MSG

\* lines 56-57: recv(len(HELLO_MSG)) returned data
RunRecvHello(c) ==
    /\ c \in ConnIds
    /\ thr[c].run = "hs"
    /\ \E data \in (IF RemoteIsEnv(c) THEN HandshakeReplies
                    ELSE IF net[c].inbox # <<>> THEN {Take(net[c].inbox, Len(HELLO_MSG))}
                    ELSE {}) :
        /\ data # HELLO_MSG => nfail < MaxFailures
        /\ nfail' = IF data # HELLO_MSG THEN nfail + 1 ELSE nfail
        /\ thr' = [thr EXCEPT ![c].run = IF HandshakeOk(data) THEN "set_connected" ELSE "returned",
                              ![c].hello = data]
        /\ net' = IF RemoteIsEnv(c) THEN net
                  ELSE [net EXCEPT ![c].inbox = Drop(@, Len(HELLO_MSG))]
    /\ UNCHANGED <<bc, rx, peers, primary, handlers, fired, conn, hist, app, srv, boot>>

\* lines 54-56: create_connection, sendall or recv raises (refused, reset,
\* timeout): the exception ends the thread
RunRaise(c) ==
    /\ c \in ConnIds
    /\ thr[c].run \in {"run", "hello", "hs"}
    /\ thr[c].run = "run" => conn[c].socket = "none"
    /\ nfail < MaxFailures
    /\ nfail' = nfail + 1
    /\ thr' = [thr EXCEPT ![c].run = "raised"]
    /\ UNCHANGED <<bc, rx, peers, primary, handlers, fired, conn, net, hist, app, srv, boot>>

\* send_msg, lines 95-97, as one step: used where no other thread can change
\* is_connected between the test and the put (before the loops start).
send_msg(c, cf, hf, msg_type, msg_param) ==
    IF ~cf[c].is_connected THEN <<cf, hf>>
    ELSE <<[cf EXCEPT ![c].outgoing_msgs = Append(@, Msg(msg_type, msg_param))],
           [hf EXCEPT ![c].accepted = Append(@, Msg(msg_type, msg_param))]>>

\* line 58
RunSetConnected(c) ==
    /\ c \in ConnIds
    /\ thr[c].run = "set_connected"
    /\ conn' = [conn EXCEPT ![c].is_connected = TRUE]
    /\ thr' = [thr EXCEPT ![c].run = "myport"]
    /\ UNCHANGED <<bc, rx, peers, primary, handlers, fired, net, hist, app, srv, boot, nfail>>

\* line 60: self.send_msg("myport", self.proto.server.server_address[1])
RunSendMyport(c) ==
    /\ c \in ConnIds
    /\ thr[c].run = "myport"
    /\ LET r == send_msg(c, conn, hist, "myport", JNum(ListenPort(conn[c].proto))) IN
        /\ conn' = r[1]
        /\ hist' = r[2]
    /\ thr' = [thr EXCEPT ![c].run = "block"]
    /\ UNCHANGED <<bc, rx, peers, primary, handlers, fired, net, app, srv, boot, nfail>>

\* line 61: self.send_msg("block", self.proto._primary_block)
RunSendBlock(c) ==
    /\ c \in ConnIds
    /\ thr[c].run = "block"
    /\ LET r == send_msg(c, conn, hist, "block", primary[conn[c].proto]) IN
        /\ conn' = r[1]
        /\ hist' = r[2]
    /\ thr' = [thr EXCEPT ![c].run = "peers", ![c].idx = 0]
    /\ UNCHANGED <<bc, rx, peers, primary, handlers, fired, net, app, srv, boot, nfail>>

\* lines 43-45, one turn of the loop over self.proto.peers; at its end,
\* line 66 starts the reader thread and line 67 enters writer_thread
RunSendPeers(c) ==
    /\ c \in ConnIds
    /\ thr[c].run = "peers"
    /\ LET ps == peers[conn[c].proto] IN
       IF thr[c].idx < Len(ps)
       THEN LET peer == ps[thr[c].idx + 1]
                r == IF conn[peer].peer_addr # NoneItem
                     THEN send_msg(c, conn, hist, "peer", JList(conn[peer].peer_addr.tuple))
                     ELSE <<conn, hist>>
            IN  /\ conn' = r[1]
                /\ hist' = r[2]
                /\ thr' = [thr EXCEPT ![c].idx = @ + 1]
       ELSE /\ thr' = [thr EXCEPT ![c].run = "w_get", ![c].reader = "recv", ![c].idx = 0]
            /\ UNCHANGED <<conn, hist, nfail>>
    /\ UNCHANGED <<bc, rx, peers, primary, handlers, fired, net, app, srv, boot, nfail>>

(***************************************************************************)
(* writer_thread                                                           *)
(***************************************************************************)
\* json.dumps(item).encode(): the bytes of a message.  A message is written
\* as its type, a separator and the text of its parameter.
TypeCode(msg_type) ==
    CASE msg_type = "myport" -> 109
      [] msg_type = "block" -> 98
      [] msg_type = "peer" -> 112
      [] msg_type = "getblock" -> 103
      [] msg_type = "transaction" -> 116

\* The text of a JSON-compatible parameter.  The lists the protocol sends
\* (an address, the transactions of a block) are written by their length, a
\* transaction by its identity.
ParamBytes(j) ==
    IF "num" \in DOMAIN j THEN Digits(j.num)
    ELSE IF "jstr" \in DOMAIN j THEN <<34>> \o j.jstr \o <<34>>
    ELSE IF "list" \in DOMAIN j THEN <<91, Len(j.list), 93>>
    ELSE IF "inputs" \in DOMAIN j.obj THEN <<123, 116>> \o Digits(j.obj.id) \o <<125>>
    ELSE <<123>> \o j.obj.prev_block_hash.jstr \o <<44>> \o j.obj.merkle_root_hash.jstr
              \o <<44>> \o j.obj.time.jstr \o <<44>> \o Digits(j.obj.nonce.num)
              \o <<44>> \o Digits(j.obj.height.num) \o <<44>> \o Digits(j.obj.difficulty.num)
              \o <<44, 91, Len(j.obj.transactions.list), 93, 125>>

json_dumps(item) == <<123, TypeCode(item.msg_type), 58>> \o ParamBytes(item.msg_param) \o <<125>>

\* lines 107-109: the frame of a message
Frame(item) ==
    LET data == json_dumps(item)
    IN  Digits(Len(data)) \o <<10>> \o data

\* Queue.get(): the oldest item
QueueGet(q) == Head(q)

\* line 103: item = self.outgoing_msgs.get(), which blocks on an empty
\* queue; line 104: None ends the loop, and the close_on_error wrapper runs
WriterGet(c) ==
    /\ c \in ConnIds
    /\ thr[c].run = "w_get"
    /\ conn[c].outgoing_msgs # <<>>
    /\ LET item == QueueGet(conn[c].outgoing_msgs) IN
        /\ conn' = [conn EXCEPT ![c].outgoing_msgs = Tail(@)]
        /\ thr' = [thr EXCEPT ![c].run = IF item = NoneItem THEN "td_empty" ELSE "w_send",
                              ![c].item = item]
    /\ UNCHANGED <<bc, rx, peers, primary, handlers, fired, net, hist, app, srv, boot, nfail>>

\* lines 107-110: the frame is written to the socket
WriterSend(c) ==
    /\ c \in ConnIds
    /\ thr[c].run = "w_send"
    /\ conn[c].socket = "open"
    /\ net' = Deliver(net, c, Frame(thr[c].item))
    /\ hist' = [hist EXCEPT ![c].written = Append(@, thr[c].item)]
    /\ thr' = [thr EXCEPT ![c].run = "w_get", ![c].item = NoneItem]
    /\ UNCHANGED <<bc, rx, peers, primary, handlers, fired, conn, app, srv, boot, nfail>>

\* lines 107-109 raise (the socket was closed by the reader's wrapper or
\* reset by the remote end, or json.dumps refuses its arguments): the
\* close_on_error wrapper runs
WriterRaise(c) ==
    /\ c \in ConnIds
    /\ thr[c].run = "w_send"
    /\ conn[c].socket = "closed" \/ nfail < MaxFailures
    /\ nfail' = IF conn[c].socket = "closed" THEN nfail ELSE nfail + 1
    /\ thr' = [thr EXCEPT ![c].run = "td_empty", ![c].item = NoneItem]
    /\ UNCHANGED <<bc, rx, peers, primary, handlers, fired, conn, net, hist, app, srv, boot>>

(***************************************************************************)
(* The close_on_error wrapper, lines 78-84, run by thread th of c after    *)
(* its loop has returned or raised                                         *)
(***************************************************************************)
\* line 78: while not self.outgoing_msgs.empty()
TdEmpty(c, th) ==
    /\ c \in ConnIds
    /\ thr[c][th] = "td_empty"
    /\ thr' = [thr EXCEPT ![c][th] = IF conn[c].outgoing_msgs = <<>> THEN "td_put" ELSE "td_get"]
    /\ UNCHANGED <<bc, rx, peers, primary, handlers, fired, conn, net, hist, app, srv, boot, nfail>>

\* line 79: get_nowait() raises queue.Empty on an empty queue, outside the
\* wrapper's try: the exception ends the thread
TdGetNowait(c, th) ==
    /\ c \in ConnIds
    /\ thr[c][th] = "td_get"
    /\ IF conn[c].outgoing_msgs # <<>>
       THEN /\ conn' = [conn EXCEPT ![c].outgoing_msgs = Tail(@)]
            /\ thr' = [thr EXCEPT ![c][th] = "td_empty"]
       ELSE /\ thr' = [thr EXCEPT ![c][th] = "raised"]
            /\ UNCHANGED conn
    /\ UNCHANGED <<bc, rx, peers, primary, handlers, fired, net, hist, app, srv, boot, nfail>>

\* line 80
TdPut(c, th) ==
    /\ c \in ConnIds
    /\ thr[c][th] = "td_put"
    /\ conn' = [conn EXCEPT ![c].outgoing_msgs = Append(@, NoneItem)]
    /\ thr' = [thr EXCEPT ![c][th] = "td_flag"]
    /\ UNCHANGED <<bc, rx, peers, primary, handlers, fired, net, hist, app, srv, boot, nfail>>

\* line 81
TdFlag(c, th) ==
    /\ c \in ConnIds
    /\ thr[c][th] = "td_flag"
    /\ conn' = [conn EXCEPT ![c].is_connected = FALSE]
    /\ thr' = [thr EXCEPT ![c][th] = "td_in"]
    /\ UNCHANGED <<bc, rx, peers, primary, handlers, fired, net, hist, app, srv, boot, nfail>>

\* line 82: if self in self.proto.peers
TdIn(c, th) ==
    /\ c \in ConnIds
    /\ thr[c][th] = "td_in"
    /\ thr' = [thr EXCEPT ![c][th] =
                 IF c \in Range(peers[conn[c].proto]) THEN "td_remove" ELSE "td_close"]
    /\ UNCHANGED <<bc, rx, peers, primary, handlers, fired, conn, net, hist, app, srv, boot, nfail>>

\* line 83: list.remove raises ValueError when the item is not in the list
TdRemove(c, th) ==
    /\ c \in ConnIds
    /\ thr[c][th] = "td_remove"
    /\ IF c \in Range(peers[conn[c].proto])
       THEN /\ peers' = [peers EXCEPT ![conn[c].proto] = RemoveFirst(@, c)]
            /\ thr' = [thr EXCEPT ![c][th] = "td_close"]
       ELSE /\ thr' = [thr EXCEPT ![c][th] = "raised"]
            /\ UNCHANGED peers
    /\ UNCHANGED <<bc, rx, primary, handlers, fired, conn, net, hist, app, srv, boot, nfail>>

\* line 84
TdClose(c, th) ==
    /\ c \in ConnIds
    /\ thr[c][th] = "td_close"
    /\ conn' = [conn EXCEPT ![c].socket = "closed"]
    /\ thr' = [thr EXCEPT ![c][th] = "done"]
    /\ UNCHANGED <<bc, rx, peers, primary, handlers, fired, net, hist, app, srv, boot, nfail>>

(***************************************************************************)
(* reader_thread                                                           *)
(***************************************************************************)
\* line 117: not buf or buf[-1] != '\n'.  buf is a bytes object, so buf[-1]
\* is an int, and '\n' is a str.
NewlineStr == PyStr(<<10>>)
ReaderLoopCond(buf) == buf = <<>> \/ PyNe(PyInt(Last(buf)), NewlineStr)

\* lines 117-121, for the bytes that have arrived: recv(1) returns them one
\* at a time, until the test of line 117 ends the loop, after the first k
\* bytes for which it is false.  The result is the buffer and the bytes left
\* in the receive buffer.
ReaderLoop(buf, inbox) ==
    LET Stops == {k \in 0..Len(inbox) : ~ReaderLoopCond(buf \o Take(inbox, k))}
        k == IF Stops = {} THEN Len(inbox)
             ELSE CHOOSE i \in Stops : \A j \in Stops : i <= j
    IN  [buf |-> buf \o Take(inbox, k), inbox |-> Drop(inbox, k)]

\* The reader takes what has arrived; with the loop still on, it waits in
\* recv(1) for more
ReaderRecv(c) ==
    /\ c \in ConnIds
    /\ thr[c].reader = "recv"
    /\ conn[c].socket = "open"
    /\ net[c].inbox # <<>>
    /\ LET r == ReaderLoop(thr[c].buf, net[c].inbox) IN
        /\ thr' = [thr EXCEPT ![c].buf = r.buf,
                              ![c].reader = IF ReaderLoopCond(r.buf) THEN "recv" ELSE "length"]
        /\ net' = [net EXCEPT ![c].inbox = r.inbox]
    /\ UNCHANGED <<bc, rx, peers, primary, handlers, fired, conn, hist, app, srv, boot, nfail>>

\* lines 118-120: recv(1) returns nothing (the remote end closed) or raises
\* (timeout, reset, the socket was closed by the writer's wrapper): the
\* close_on_error wrapper runs
ReaderEnd(c) ==
    /\ c \in ConnIds
    /\ thr[c].reader = "recv"
    /\ conn[c].socket = "closed" \/ (net[c].inbox = <<>> /\ nfail < MaxFailures)
    /\ nfail' = IF conn[c].socket = "closed" THEN nfail ELSE nfail + 1
    /\ thr' = [thr EXCEPT ![c].reader = "td_empty"]
    /\ UNCHANGED <<bc, rx, peers, primary, handlers, fired, conn, net, hist, app, srv, boot>>

\* An exception, as a value
Raised(name) == [raised |-> name]
IsRaised(v) == "raised" \in DOMAIN v

\* line 122: length = int(buf), of the digits and the newline that ended
\* the loop; int() raises ValueError on anything else
header_length(buf) ==
    IF Len(buf) >= 2 /\ Last(buf) = 10 /\ \A i \in 1..(Len(buf) - 1) : buf[i] \in 48..57
    THEN ParseDigits(Take(buf, Len(buf) - 1))
    ELSE Raised("ValueError")

\* lines 123-129: buf = bytearray(length) holds zero bytes; buf[read:] is a
\* copy of the rest of buf, and recv_into fills the copy: the loop counts
\* the bytes that arrive and buf keeps its zero bytes
recv_payload(length, inbox) ==
    [buf |-> [i \in 1..length |-> 0], inbox |-> Drop(inbox, length)]

\* line 131, json.loads(buf.decode()): the object whose text the bytes are,
\* among the objects a peer writes; ValueError when they are no JSON text
json_loads(data, objects) ==
    IF \E o \in objects : json_dumps(o) = data
    THEN CHOOSE o \in objects : json_dumps(o) = data
    ELSE Raised("ValueError")

\* obj[key], lines 132-133: KeyError when the dict has no such key
getitem(obj, key) == IF key \in DOMAIN obj THEN obj[key] ELSE Raised("KeyError")

\* An address (host, port) as a Python tuple: a str and an int
PyAddr(addr) == <<PyStr(addr[1]), PyInt(addr[2])>>

\* line 136: (self._sock_addr,) + (int(msg_param),) + self._sock_addr[2:],
\* a tuple whose first element is the tuple _sock_addr
myport_addr(_sock_addr, msg_param) ==
    [tuple |-> <<[tuple |-> PyAddr(_sock_addr)], PyInt(msg_param.num)>>
                  \o [i \in 1..(Len(_sock_addr) - 2) |-> PyInt(_sock_addr[i + 2])]]

\* reader_thread, lines 115-138, on the bytes inbox that arrive on the
\* socket, one turn of the outer loop after the other.  The result is where
\* the reader is when the bytes are used up (waiting in recv, line 118, or in
\* recv_into, line 126, or ended by an exception), the buffer it holds, and
\* the messages it has got to line 135 with.
RECURSIVE reader_thread(_, _, _)
reader_thread(inbox, objects, parsed) ==
    LET header == ReaderLoop(<<>>, inbox) IN
    IF ReaderLoopCond(header.buf)
    THEN [at |-> "recv", buf |-> header.buf, parsed |-> parsed]
    ELSE LET length == header_length(header.buf) IN
         IF IsRaised(length) THEN [at |-> "raised", buf |-> header.buf, parsed |-> parsed]
         ELSE IF Len(header.inbox) < length
             THEN [at |-> "recv_into", buf |-> header.buf, parsed |-> parsed]
         ELSE LET payload == recv_payload(length, header.inbox)
                  obj == json_loads(payload.buf, objects)
                  msg_type == IF IsRaised(obj) THEN obj ELSE getitem(obj, "msg_type")
                  msg_param == IF IsRaised(obj) THEN obj ELSE getitem(obj, "msg_params")
              IN  IF IsRaised(msg_type) \/ IsRaised(msg_param)
                  THEN [at |-> "raised", buf |-> payload.buf, parsed |-> parsed]
                  ELSE reader_thread(payload.inbox, objects,
                                     Append(parsed, Msg(msg_type, msg_param)))

(***************************************************************************)
(* The application's calls into the Protocol                               *)
(***************************************************************************)
\* The connections of n's peer table that are connected
ConnectedPeers(n) == {c \in Range(peers[n]) : conn[c].is_connected}

\* block_receive_handlers.append(handler)
RegisterHandler(n) ==
    /\ boot[n].pc = "done"
    /\ app[n].pc = "idle"
    /\ Len(handlers[n]) < MaxHandlers
    /\ handlers' = [handlers EXCEPT ![n] = Append(@, Len(@) + 1)]
    /\ UNCHANGED <<bc, rx, peers, primary, fired, conn, thr, net, hist, app, srv, boot, nfail>>

\* broadcast_primary_block(block), line 189; the application registers its
\* callbacks before it broadcasts
AppBroadcast(n, block) ==
    /\ boot[n].pc = "done"
    /\ app[n].pc = "idle"
    /\ Len(handlers[n]) = MaxHandlers
    /\ app[n].calls < MaxOps
    /\ primary' = [primary EXCEPT ![n] = to_json_compatible(block)]
    /\ app' = [app EXCEPT ![n] = [pc |-> "iter", op |-> "block", i |-> 0, cur |-> 0,
                                  arg |-> to_json_compatible(block), calls |-> @.calls + 1,
                                  start |-> ConnectedPeers(n), sent |-> <<>>]]
    /\ UNCHANGED <<bc, rx, peers, handlers, fired, conn, thr, net, hist, srv, boot, nfail>>

\* send_block_request(block_hash)
AppRequest(n, block_hash) ==
    /\ boot[n].pc = "done"
    /\ app[n].pc = "idle"
    /\ app[n].calls < MaxOps
    /\ app' = [app EXCEPT ![n] = [pc |-> "iter", op |-> "getblock", i |-> 0, cur |-> 0,
                                  arg |-> JStr(hexlify(block_hash)), calls |-> @.calls + 1,
                                  start |-> ConnectedPeers(n), sent |-> <<>>]]
    /\ UNCHANGED <<bc, rx, peers, primary, handlers, fired, conn, thr, net, hist, srv, boot, nfail>>

\* The element a list iterator at position i yields, or none at the end
IterNext(list, i) == IF i < Len(list) THEN list[i + 1] ELSE 0

\* lines 190 and 232: for peer in self.peers
AppIter(n) ==
    /\ app[n].pc = "iter"
    /\ LET peer == IterNext(peers[n], app[n].i) IN
       app' = [app EXCEPT ![n].pc = IF peer # 0 THEN "check"
                                    ELSE IF app[n].op = "block" THEN "callback" ELSE "idle",
                          ![n].i = IF peer # 0 THEN @ + 1 ELSE @,
                          ![n].cur = peer]
    /\ UNCHANGED <<bc, rx, peers, primary, handlers, fired, conn, thr, net, hist, srv, boot, nfail>>

\* send_msg, lines 95-96
AppCheck(n) ==
    /\ app[n].pc = "check"
    /\ app' = [app EXCEPT ![n].pc = IF ~conn[app[n].cur].is_connected THEN "iter" ELSE "put"]
    /\ UNCHANGED <<bc, rx, peers, primary, handlers, fired, conn, thr, net, hist, srv, boot, nfail>>

\* send_msg, line 97
AppPut(n) ==
    /\ app[n].pc = "put"
    /\ LET item == Msg(app[n].op, app[n].arg) IN
        /\ conn' = [conn EXCEPT ![app[n].cur].outgoing_msgs = Append(@, item)]
        /\ hist' = [hist EXCEPT ![app[n].cur].accepted = Append(@, item)]
    /\ app' = [app EXCEPT ![n].pc = "iter", ![n].sent = Append(@, app[n].cur)]
    /\ UNCHANGED <<bc, rx, peers, primary, handlers, fired, thr, net, srv, boot, nfail>>

\* received_block, lines 222-223: every handler is called with the decoded block
received_block(n, block) ==
    fired[n] \o [k \in 1..Len(handlers[n]) |->
                    [handler |-> handlers[n][k], block |-> from_json_compatible(block)]]

\* line 192: self.received_block(self._primary_block, None)
AppCallback(n) ==
    /\ app[n].pc = "callback"
    /\ fired' = [fired EXCEPT ![n] = received_block(n, primary[n])]
    /\ app' = [app EXCEPT ![n].pc = "idle", ![n].cur = 0, ![n].i = 0]
    /\ UNCHANGED <<bc, rx, peers, primary, handlers, conn, thr, net, hist, srv, boot, nfail>>

(***************************************************************************)
(* Transactions, as block.py uses them (transaction.py): inputs name the   *)
(* outputs a transaction spends, targets carry the amounts it pays, fee is *)
(* what get_transaction_fee returns for it.                                *)
(***************************************************************************)
Transaction(id, inputs, amounts, fee) ==
    [id |-> id, inputs |-> inputs,
     targets |-> [i \in 1..Len(amounts) |-> [amount |-> amounts[i]]], fee |-> fee]

\* Two mining rewards and two transactions that spend the same output
Reward1 == Transaction(1, <<>>, <<1>>, 0)
Reward2 == Transaction(2, <<>>, <<1, 1>>, 0)
Spend1 == Transaction(3, <<1>>, <<1>>, 1)
Spend2 == Transaction(4, <<1>>, <<2>>, 0)
TxPool == {Reward1, Reward2, Spend1, Spend2}
TxLists == UNION {[1..k -> TxPool] : k \in 0..MaxTxs}

RECURSIVE SumSeq(_)
SumSeq(s) == IF s = <<>> THEN 0 ELSE s[1] + SumSeq(Tail(s))

(***************************************************************************)
(* The chain view (blockchain.py): the blocks from the genesis block to    *)
(* the head, and what the chain computes for its next block                *)
(***************************************************************************)
Blockchain(blocks, difficulty_next, blockreward_next) ==
    [blocks |-> blocks, difficulty_next |-> difficulty_next,
     blockreward_next |-> blockreward_next,
     block |-> NoneItem, result |-> "none", checks |-> NoneItem, evaluated |-> <<>>]
NoChain == Blockchain(<<GENESIS_BLOCK>>, GENESIS_DIFFICULTY, 0)

head(chain) == Last(chain.blocks)
block_indices(chain) == {chain.blocks[i].hash : i \in 1..Len(chain.blocks)}
compute_difficulty_next_block(chain) == chain.difficulty_next
compute_blockreward_next_block(chain) == chain.blockreward_next
\* The outputs the transactions of the chain have spent
SpentOutputs(chain) ==
    UNION {Range(t.inputs) :
              t \in UNION {Range(chain.blocks[i].transactions) : i \in 1..Len(chain.blocks)}}

\* datetime.utcnow()
utcnow == datetime(60, 0)

\* Transaction.verify(chain, other_trans): no input is spent in the chain or
\* by one of the other transactions
transaction_verify(t, chain, other_trans) ==
    \A k \in 1..Len(t.inputs) :
        /\ t.inputs[k] \notin SpentOutputs(chain)
        /\ \A o \in other_trans : t.inputs[k] \notin Range(o.inputs)

get_transaction_fee(t, chain) == t.fee

\* proof_of_work.verify_proof_of_work: the header hash, as a number, is
\* below the target of the difficulty
verify_proof_of_work(block) == SumSeq(block.hash) % 4 < 4 - block.difficulty

(***************************************************************************)
(* Block.create, Block.verify and its checks                               *)
(***************************************************************************)
\* create with < in line 87
create_lt(blockchain, transactions, ts) ==
    LET difficulty == compute_difficulty_next_block(blockchain)
        ts1 == IF ts = NoneItem THEN utcnow ELSE ts
        ts2 == IF dt_le(ts1, head(blockchain).time) /\ ts1 # head(blockchain).time
               THEN dt_add(head(blockchain).time, timedelta(0, 1))
               ELSE ts1
    IN  Block(head(blockchain).hash, ts2, 0, head(blockchain).height + difficulty,
              difficulty, transactions, merkle_root(transactions))

\* lines 83-90; ts is a datetime or None
create(blockchain, transactions, ts) ==
    LET difficulty == compute_difficulty_next_block(blockchain)
        ts1 == IF ts = NoneItem THEN utcnow ELSE ts
        ts2 == IF dt_le(ts1, head(blockchain).time)
               THEN dt_add(head(blockchain).time, timedelta(0, 1))
               ELSE ts1
    IN  Block(head(blockchain).hash, ts2, 0, head(blockchain).height + difficulty,
              difficulty, transactions, merkle_root(transactions))

verify_merkle(block) == merkle_root(block.transactions) = block.merkle_root_hash

verify_difficulty(block) ==
    IF block.hash = GENESIS_BLOCK_HASH THEN TRUE
    ELSE IF ~verify_proof_of_work(block) THEN FALSE
    ELSE TRUE

\* verify_prev_block without the check of line 145
verify_prev_block_nolink(block, chain) ==
    IF block.difficulty # compute_difficulty_next_block(chain) THEN FALSE
    ELSE IF head(chain).height + block.difficulty # block.height THEN FALSE
    ELSE TRUE

verify_prev_block(block, chain) ==
    IF head(chain).hash # block.prev_block_hash THEN FALSE
    ELSE IF block.difficulty # compute_difficulty_next_block(chain) THEN FALSE
    ELSE IF head(chain).height + block.difficulty # block.height THEN FALSE
    ELSE TRUE

\* lines 160-169: the loop over the transactions from position i on, with
\* mining_reward as the loop has left it; the result is "False" where the
\* loop returns False, and mining_reward at the end of the loop otherwise
RECURSIVE TransactionsLoop(_, _, _, _)
TransactionsLoop(block, chain, i, mining_reward) ==
    IF i > Len(block.transactions) THEN [returned |-> FALSE, mining_reward |-> mining_reward]
    ELSE LET t == block.transactions[i]
             trans_set == Range(block.transactions)
             is_reward == t.inputs = <<>>
         IN  IF is_reward /\ mining_reward # NoneItem
                 THEN [returned |-> TRUE, mining_reward |-> mining_reward]
             ELSE IF ~transaction_verify(t, chain, trans_set \ {t})
                 THEN [returned |-> TRUE, mining_reward |-> mining_reward]
             ELSE TransactionsLoop(block, chain, i + 1, IF is_reward THEN t ELSE mining_reward)

TotalFees(block, chain) ==
    SumSeq([i \in 1..Len(block.transactions) |-> get_transaction_fee(block.transactions[i], chain)])
UsedAmount(mining_reward) ==
    SumSeq([i \in 1..Len(mining_reward.targets) |-> mining_reward.targets[i].amount])

\* verify_transactions with >= in line 174
verify_transactions_ge(block, chain) ==
    LET loop == TransactionsLoop(block, chain, 1, NoneItem)
    IN  IF loop.returned THEN FALSE
        ELSE IF loop.mining_reward # NoneItem
                /\ UsedAmount(loop.mining_reward) >=
                       TotalFees(block, chain) + compute_blockreward_next_block(chain)
            THEN FALSE
        ELSE TRUE

verify_transactions(block, chain) ==
    LET loop == TransactionsLoop(block, chain, 1, NoneItem)
    IN  IF loop.returned THEN FALSE
        ELSE IF loop.mining_reward # NoneItem
                /\ UsedAmount(loop.mining_reward) >
                       TotalFees(block, chain) + compute_blockreward_next_block(chain)
            THEN FALSE
        ELSE TRUE

verify_time(block, chain) ==
    IF dt_gt(dt_sub(block.time, timedelta_hours(2)), utcnow) THEN FALSE
    ELSE IF dt_le(block.time, head(chain).time) THEN FALSE
    ELSE TRUE

\* line 197
AssertUnknown(block, chain) == block.hash \notin block_indices(chain)

\* verify without the check of the time, the last operand of line 202
verify_notime(block, chain) ==
    IF block.height = 0 THEN FALSE
    ELSE /\ verify_difficulty(block)
         /\ verify_merkle(block)
         /\ verify_prev_block(block, chain)
         /\ verify_transactions(block, chain)

\* lines 198-202
verify(block, chain) ==
    IF block.height = 0 THEN FALSE
    ELSE /\ verify_difficulty(block)
         /\ verify_merkle(block)
         /\ verify_prev_block(block, chain)
         /\ verify_transactions(block, chain)
         /\ verify_time(block, chain)

\* What each check says of the block, when called on its own
Checks(block, chain) ==
    [difficulty |-> verify_difficulty(block),
     merkle |-> verify_merkle(block),
     prev_block |-> verify_prev_block(block, chain),
     transactions |-> verify_transactions(block, chain),
     time |-> verify_time(block, chain)]

\* The checks verify evaluates, in the order of evaluation
Evaluated(block, chain) ==
    IF block.height = 0 THEN <<>>
    ELSE IF ~verify_difficulty(block) THEN <<"difficulty">>
    ELSE IF ~verify_merkle(block) THEN <<"difficulty", "merkle">>
    ELSE IF ~verify_prev_block(block, chain) THEN <<"difficulty", "merkle", "prev_block">>
    ELSE IF ~verify_transactions(block, chain)
        THEN <<"difficulty", "merkle", "prev_block", "transactions">>
    ELSE <<"difficulty", "merkle", "prev_block", "transactions", "time">>

\* The blocks a node is given to verify on top of a chain: headers of all
\* kinds, with no transaction or one
WrongMerkle == <<255>>
Candidates(chain) ==
    {Block(prev, time, nonce, height, difficulty, transactions,
           IF wrong_merkle THEN WrongMerkle ELSE merkle_root(transactions)) :
        prev \in {head(chain).hash, GENESIS_BLOCK_HASH, GenesisPrev},
        time \in {GENESIS_BLOCK.time, head(chain).time,
                  dt_add(head(chain).time, timedelta(0, 1)),
                  dt_add(dt_add(utcnow, timedelta_hours(2)), timedelta(0, 1))},
        nonce \in 0..MaxNonce,
        height \in {0} \cup head(chain).height..(head(chain).height + MaxDifficulty),
        difficulty \in 0..MaxDifficulty,
        transactions \in {<<>>, <<Spend1>>},
        wrong_merkle \in BOOLEAN}

\* The blocks Block.create makes for a chain, of all lists of transactions
CreatedBlocks(chain) ==
    {create(chain, transactions, ts) :
        transactions \in TxLists,
        ts \in {NoneItem, head(chain).time, dt_add(head(chain).time, timedelta(1, 0))}}

\* block.verify(chain).  An assert statement raises AssertionError, or is
\* skipped when the interpreter runs with -O.
VerifyFrom(blocks) ==
    /\ bc.result = "none"
    /\ \E block \in blocks, optimized \in BOOLEAN :
        /\ optimized => ~AssertUnknown(block, bc)
        /\ bc' = [bc EXCEPT
                    !.block = block,
                    !.result = IF ~AssertUnknown(block, bc) /\ ~optimized THEN "AssertionError"
                               ELSE IF verify(block, bc) THEN "True" ELSE "False",
                    !.checks = Checks(block, bc),
                    !.evaluated = IF ~AssertUnknown(block, bc) /\ ~optimized THEN <<>>
                                  ELSE Evaluated(block, bc)]
        /\ UNCHANGED <<rx, peers, primary, handlers, fired, conn, thr, net, hist, app, srv, boot, nfail>>

VerifyBlock == VerifyFrom(Candidates(bc))
VerifyCreated == VerifyFrom(CreatedBlocks(bc))

\* The chain takes a block that verify has accepted as its new head
\* (blockchain.py)
AcceptBlock ==
    /\ bc.result = "True"
    /\ Len(bc.blocks) < MaxChain
    /\ bc' = [bc EXCEPT !.blocks = Append(@, bc.block), !.block = NoneItem,
                        !.result = "none", !.checks = NoneItem, !.evaluated = <<>>]
    /\ UNCHANGED <<rx, peers, primary, handlers, fired, conn, thr, net, hist, app, srv, boot, nfail>>

\* The caller drops the block it had verified
DiscardBlock ==
    /\ bc.result # "none"
    /\ bc' = [bc EXCEPT !.block = NoneItem, !.result = "none", !.checks = NoneItem,
                        !.evaluated = <<>>]
    /\ UNCHANGED <<rx, peers, primary, handlers, fired, conn, thr, net, hist, app, srv, boot, nfail>>

\* Blocks of all kinds of headers, verified on a chain that grows by the
\* blocks verify accepts
InitBlock ==
    /\ InitNode({})
    /\ \E difficulty_next \in 0..MaxDifficulty, blockreward_next \in 0..MaxReward :
          bc = Blockchain(<<GENESIS_BLOCK>>, difficulty_next, blockreward_next)

NextBlock == VerifyBlock \/ AcceptBlock \/ DiscardBlock

SpecBlock == InitBlock /\ [][NextBlock]_vars

\* Blocks made by Block.create, of all lists of transactions, verified on a
\* chain of the genesis block, or of the genesis block and a block in which
\* Spend1 spends its output
InitTx ==
    /\ InitNode({})
    /\ \E difficulty_next \in 0..MaxDifficulty, blockreward_next \in 0..MaxReward :
          LET chain == Blockchain(<<GENESIS_BLOCK>>, difficulty_next, blockreward_next)
          IN  \/ bc = chain
              \/ bc = [chain EXCEPT !.blocks = Append(@, create(chain, <<Spend1>>, NoneItem))]

NextTx == VerifyCreated \/ DiscardBlock

SpecTx == InitTx /\ [][NextTx]_vars

\* Chains built from the blocks Block.create makes: the timestamps a caller
\* passes are None, the genesis block's time, the head's time and a later
\* time; the chain takes the created block as its new head, up to MaxChain
\* blocks
Timestamps(chain) ==
    {NoneItem, GENESIS_BLOCK.time, head(chain).time,
     dt_add(head(chain).time, timedelta(1, 0))}
CreatedOnHead(chain) ==
    {create(chain, transactions, ts) :
        transactions \in {<<>>, <<Spend1>>}, ts \in Timestamps(chain)}

CreateOnHead == VerifyFrom(CreatedOnHead(bc))

AppendCreated ==
    /\ bc.result # "none"
    /\ Len(bc.blocks) < MaxChain
    /\ bc' = [bc EXCEPT !.blocks = Append(@, bc.block), !.block = NoneItem,
                        !.result = "none", !.checks = NoneItem, !.evaluated = <<>>]
    /\ UNCHANGED <<rx, peers, primary, handlers, fired, conn, thr, net, hist, app, srv, boot, nfail>>

InitCreate ==
    /\ InitNode({})
    /\ \E difficulty_next \in 0..MaxDifficulty, blockreward_next \in 0..MaxReward :
          bc = Blockchain(<<GENESIS_BLOCK>>, difficulty_next, blockreward_next)

NextCreate == CreateOnHead \/ AppendCreated \/ DiscardBlock

SpecCreate == InitCreate /\ [][NextCreate]_vars

(***************************************************************************)
(* The protocol of one node, A, whose peers are hosts of the environment   *)
(***************************************************************************)
Init ==
    /\ InitNode({"A"})
    /\ bc = NoChain

RunThread(c) ==
    \/ RunConnect(c)
    \/ RunSendHello(c)
    \/ RunRecvHello(c)
    \/ RunRaise(c)
    \/ RunSetConnected(c)
    \/ RunSendMyport(c)
    \/ RunSendBlock(c)
    \/ RunSendPeers(c)

Loops(c) ==
    \/ WriterGet(c)
    \/ WriterSend(c)
    \/ WriterRaise(c)
    \/ ReaderEnd(c)

Teardown(c) ==
    \E th \in Threads :
        \/ TdEmpty(c, th)
        \/ TdGetNowait(c, th)
        \/ TdPut(c, th)
        \/ TdFlag(c, th)
        \/ TdIn(c, th)
        \/ TdRemove(c, th)
        \/ TdClose(c, th)

Broadcasts(n) ==
    \/ RegisterHandler(n)
    \/ \E block \in NewBlocks(n) : AppBroadcast(n, block)
    \/ AppRequest(n, GENESIS_BLOCK_HASH)
    \/ AppIter(n)
    \/ AppCheck(n)
    \/ AppPut(n)
    \/ AppCallback(n)

\* Node A bootstraps from a host of the environment that sends nothing after
\* the handshake, and its application broadcasts.
Next ==
    \/ BootstrapConstruct("A")
    \/ BootstrapAppend("A")
    \/ \E c \in AllConnIds : RunThread(c) \/ Loops(c) \/ Teardown(c)
    \/ Broadcasts("A")

Spec == Init /\ [][Next]_vars

(***************************************************************************)
(* Admission: node A with the connections of hosts of the environment,     *)
(* whose threads have not run yet or fail to connect                       *)
(***************************************************************************)
NextAdmit ==
    \/ BootstrapConstruct("A")
    \/ BootstrapAppend("A")
    \/ AcceptCheck("A", 0)
    \/ AcceptConstruct("A")
    \/ AcceptAppend("A")
    \/ \E c \in AllConnIds : RunRaise(c)

SpecAdmit == Init /\ [][NextAdmit]_vars

(***************************************************************************)
(* Broadcast: node A with two connected peers of the environment, the      *)
(* bootstrap peer and an accepted one, whose first messages are written    *)
(***************************************************************************)
ConnectedConn(n, addr) ==
    [proto |-> n, _sock_addr |-> addr, socket |-> "open", is_connected |-> TRUE,
     outgoing_msgs |-> <<>>, peer_addr |-> NoneItem]
FirstMessages(n) ==
    <<Msg("myport", JNum(ListenPort(n))), Msg("block", to_json_compatible(StartBlock(n)))>>

TwoConnectedPeers ==
    /\ peers = [n \in Nodes |-> IF n = "A" THEN <<1, 2>> ELSE <<>>]
    /\ primary = [n \in Nodes |-> to_json_compatible(StartBlock(n))]
    /\ handlers = [n \in Nodes |-> IF n = "A" THEN [k \in 1..MaxHandlers |-> k] ELSE <<>>]
    /\ fired = [n \in Nodes |-> <<>>]
    /\ conn = <<ConnectedConn("A", BootstrapPeer("A")),
                ConnectedConn("A", <<EnvHost, EphemeralPort(2)>>)>>
    /\ thr = [c \in 1..2 |-> [NoThr EXCEPT !.run = "w_get", !.reader = "recv", !.hello = HELLO_MSG]]
    /\ net = [c \in 1..2 |-> NoNet]
    /\ hist = [c \in 1..2 |-> [accepted |-> FirstMessages("A"), written |-> FirstMessages("A")]]
    /\ app = [n \in Nodes |-> IdleApp]
    /\ srv = [n \in Nodes |-> [pc |-> "idle", c |-> 0, backlog |-> <<>>, from |-> 0]]
    /\ boot = [n \in Nodes |-> IF n = "A" THEN [pc |-> "done", c |-> 1] ELSE [pc |-> "off", c |-> 0]]
    /\ nfail = 0

InitBroadcast ==
    /\ TwoConnectedPeers
    /\ bc = NoChain
    /\ rx = NoRx

NextBroadcast ==
    \/ \E c \in AllConnIds : Loops(c) \/ Teardown(c)
    \/ \E block \in NewBlocks("A") : AppBroadcast("A", block)
    \/ AppRequest("A", GENESIS_BLOCK_HASH)
    \/ AppIter("A")
    \/ AppCheck("A")
    \/ AppPut("A")
    \/ AppCallback("A")

SpecBroadcast == InitBroadcast /\ [][NextBroadcast]_vars

(***************************************************************************)
(* End to end: node A listens, its own bootstrap connection has failed;    *)
(* node B bootstraps against A.  No connection between A and B fails or    *)
(* times out, and every thread keeps running.                              *)
(***************************************************************************)
InitE2E ==
    /\ peers = [n \in Nodes |-> IF n = "A" THEN <<1>> ELSE <<>>]
    /\ primary = [n \in Nodes |-> to_json_compatible(StartBlock(n))]
    /\ handlers = [n \in Nodes |-> [k \in 1..MaxHandlers |-> k]]
    /\ fired = [n \in Nodes |-> <<>>]
    /\ conn = <<NewConn("A", BootstrapPeer("A"), "none")>>
    /\ thr = <<[NoThr EXCEPT !.run = "raised"]>>
    /\ net = <<NoNet>>
    /\ hist = <<NoHist>>
    /\ app = [n \in Nodes |-> IdleApp]
    /\ srv = [n \in Nodes |-> [pc |-> "idle", c |-> 0, backlog |-> <<>>, from |-> 0]]
    /\ boot = [n \in Nodes |-> IF n = "A" THEN [pc |-> "done", c |-> 1] ELSE [pc |-> "construct", c |-> 0]]
    /\ nfail = MaxFailures
    /\ bc = NoChain
    /\ rx = NoRx

NextE2E ==
    \/ BootstrapConstruct("B")
    \/ BootstrapAppend("B")
    \/ \E c \in AllConnIds : AcceptCheck("A", c)
    \/ AcceptConstruct("A")
    \/ AcceptAppend("A")
    \/ \E c \in AllConnIds :
          \/ RunConnect(c)
          \/ RunSendHello(c)
          \/ RunRecvHello(c)
          \/ RunSetConnected(c)
          \/ RunSendMyport(c)
          \/ RunSendBlock(c)
          \/ RunSendPeers(c)
          \/ WriterGet(c)
          \/ WriterSend(c)
          \/ ReaderRecv(c)
    \/ \E block \in NewBlocks("A") : AppBroadcast("A", block)
    \/ AppIter("A")
    \/ AppCheck("A")
    \/ AppPut("A")
    \/ AppCallback("A")

SpecE2E == InitE2E /\ [][NextE2E]_vars /\ WF_vars(NextE2E)

(***************************************************************************)
(* The remote end of a connection to a host of the environment             *)
(***************************************************************************)
\* A transaction in its JSON-compatible form, and a block provider of the
\* application: a callback that returns the block of a hash, or None
TransactionJson == transaction_to_json(Transaction(3, <<1>>, <<1>>, 1))
Provider(id, blocks) == [id |-> id, blocks |-> blocks]
provider_call(handler, block_hash) ==
    IF \E b \in handler.blocks : b.hash = block_hash
    THEN CHOOSE b \in handler.blocks : b.hash = block_hash
    ELSE NoneItem

\* The port a host of the environment listens on, and the messages it sends
\* after the handshake
RemotePort == 9000
RemoteMessages ==
    {Msg("myport", JNum(RemotePort)),
     Msg("peer", JList(<<EnvHost, RemotePort>>)),
     Msg("getblock", JStr(hexlify(StartBlock("A").hash))),
     Msg("getblock", JStr(hexlify(GenesisPrev))),
     Msg("transaction", TransactionJson)}

\* The messages the remote end of c has sent so far
SentTo(c) ==
    LET to_c == SelectSeq(rx.remote, LAMBDA m : m.c = c)
    IN  [k \in 1..Len(to_c) |-> to_c[k].item]

\* The remote end of c writes the frame of a message, as writer_thread
\* writes it (lines 107-109)
RemoteSend(c, item) ==
    /\ c \in ConnIds
    /\ RemoteIsEnv(c)
    /\ conn[c].socket = "open"
    /\ thr[c].hello = HELLO_MSG
    /\ Len(rx.remote) < MaxFrames
    /\ net' = [net EXCEPT ![c].inbox = @ \o Frame(item)]
    /\ rx' = [rx EXCEPT !.remote = Append(@, [c |-> c, item |-> item])]
    /\ UNCHANGED <<bc, peers, primary, handlers, fired, conn, thr, hist, app, srv, boot, nfail>>

(***************************************************************************)
(* Lines 135-138 and the handlers of Protocol.received, for a message the  *)
(* reader of c has parsed.  rx.call[c] holds the message (its position k   *)
(* among the messages received), the handler's place and its loop index.   *)
(***************************************************************************)
Receiving(c) == c \in DOMAIN rx.call
Call(c, pc) == c \in ConnIds /\ Receiving(c) /\ rx.call[c].pc = pc
\* The call on c returns to the reader loop
Return(c) == [x \in DOMAIN rx.call \ {c} |-> rx.call[x]]
Step(c, pc, i) == [rx.call EXCEPT ![c].pc = pc, ![c].i = i]

\* lines 135-138, and line 196: getattr(self, 'received_' + msg_type)
Parsed(c, item) ==
    /\ c \in ConnIds
    /\ RemoteIsEnv(c)
    /\ conn[c].is_connected
    /\ thr[c].reader = "recv"
    /\ ~Receiving(c)
    /\ Len(rx.remote) < MaxFrames
    /\ IF item.msg_type = "myport"
       THEN /\ conn' = [conn EXCEPT ![c].peer_addr = myport_addr(conn[c]._sock_addr, item.msg_param)]
            /\ rx' = [rx EXCEPT !.remote = Append(@, [c |-> c, item |-> item])]
       ELSE /\ rx' = [rx EXCEPT
                        !.remote = Append(@, [c |-> c, item |-> item]),
                        !.call = [x \in DOMAIN rx.call \cup {c} |->
                                    IF x = c
                                    THEN [pc |-> item.msg_type, k |-> Len(rx.remote) + 1,
                                          item |-> item, i |-> 0, d |-> 0]
                                    ELSE rx.call[x]]]
            /\ UNCHANGED conn
    /\ UNCHANGED <<bc, peers, primary, handlers, fired, thr, net, hist, app, srv, boot, nfail>>

\* line 201, tuple(peer_addr), of the JSON list [host, port]
addr_tuple(list) == [tuple |-> PyAddr(list)]

\* received_peer, lines 201-203
ReceivedPeerLen(c) ==
    /\ Call(c, "peer")
    /\ rx' = [rx EXCEPT !.call = IF Len(peers[conn[c].proto]) >= MAX_PEERS THEN Return(c)
                                 ELSE Step(c, "peer_scan", 0)]
    /\ UNCHANGED <<bc, peers, primary, handlers, fired, conn, thr, net, hist, app, srv, boot, nfail>>

\* lines 205-207, one turn of the loop over self.peers
ReceivedPeerScan(c) ==
    /\ Call(c, "peer_scan")
    /\ LET peer == IterNext(peers[conn[c].proto], rx.call[c].i)
           peer_addr == addr_tuple(rx.call[c].item.msg_param.list)
       IN  rx' = [rx EXCEPT !.call =
                     IF peer = 0 THEN Step(c, "peer_construct", 0)
                     ELSE IF PyEq(conn[peer].peer_addr, peer_addr) THEN Return(c)
                     ELSE Step(c, "peer_scan", rx.call[c].i + 1)]
    /\ UNCHANGED <<bc, peers, primary, handlers, fired, conn, thr, net, hist, app, srv, boot, nfail>>

\* line 210: PeerConnection(peer_addr, self) ...
ReceivedPeerConstruct(c) ==
    /\ Call(c, "peer_construct")
    /\ nconns < MAX_PEERS + ExtraConns
    /\ LET d == nconns + 1
           list == rx.call[c].item.msg_param.list
       IN
        /\ conn' = Append(conn, NewConn(conn[c].proto, <<list[1], list[2]>>, "none"))
        /\ thr' = Append(thr, NewThr)
        /\ net' = Append(net, NoNet)
        /\ hist' = Append(hist, NoHist)
        /\ rx' = [rx EXCEPT !.call[c].pc = "peer_append", !.call[c].d = d,
                             !.opened = Append(@, [d |-> d, k |-> rx.call[c].k])]
    /\ UNCHANGED <<bc, peers, primary, handlers, fired, app, srv, boot, nfail>>

\* ... and self.peers.append of it
ReceivedPeerAppend(c) ==
    /\ Call(c, "peer_append")
    /\ peers' = [peers EXCEPT ![conn[c].proto] = Append(@, rx.call[c].d)]
    /\ rx' = [rx EXCEPT !.call = Return(c)]
    /\ UNCHANGED <<bc, primary, handlers, fired, conn, thr, net, hist, app, srv, boot, nfail>>

\* received_getblock, lines 214-218, one turn of the loop over the providers
ReceivedGetblock(c) ==
    /\ Call(c, "getblock")
    /\ LET n == conn[c].proto
           hs == rx.block_request_handlers[n]
           i == rx.call[c].i
       IN  IF i >= Len(hs)
           THEN /\ rx' = [rx EXCEPT !.call = Return(c)]
                /\ UNCHANGED <<conn, hist>>
           ELSE LET block == provider_call(hs[i + 1], unhexlify(rx.call[c].item.msg_param.jstr))
                    r == IF block # NoneItem
                         THEN send_msg(c, conn, hist, "block", to_json_compatible(block))
                         ELSE <<conn, hist>>
                IN  /\ conn' = r[1]
                    /\ hist' = r[2]
                    /\ rx' = [rx EXCEPT
                                !.consulted[n] = Append(@, [c |-> c, id |-> hs[i + 1].id]),
                                !.call = IF block # NoneItem THEN Return(c)
                                         ELSE Step(c, "getblock", i + 1)]
    /\ UNCHANGED <<bc, peers, primary, handlers, fired, thr, net, app, srv, boot, nfail>>

\* The names received_transaction can use at line 228: its parameters, the
\* loop variable, and the names of the module (lines 1-13, 15-16, 20, 141,
\* 152)
NamesInScope ==
    {"self", "transaction", "_", "handler",
     "json", "Enum", "socket", "socketserver", "Thread", "logging", "Queue", "unhexlify",
     "hexlify", "Block", "Transaction", "MAX_PEERS", "HELLO_MSG", "PeerConnection",
     "SocketServer", "Protocol"}
\* The value of a name: NameError when it is bound nowhere
name_value(name, bound) == IF name \in NamesInScope THEN bound ELSE Raised("NameError")

\* received_transaction, lines 227-228, one turn of the loop over the
\* callbacks: handler(Transaction.from_json_compatible(block)).  An
\* exception leaves the reader loop, and the close_on_error wrapper runs.
ReceivedTransaction(c) ==
    /\ Call(c, "transaction")
    /\ LET n == conn[c].proto
           hs == rx.trans_receive_handlers[n]
           i == rx.call[c].i
           arg == name_value("block", rx.call[c].item.msg_param)
       IN  IF i >= Len(hs)
           THEN /\ rx' = [rx EXCEPT !.call = Return(c)]
                /\ UNCHANGED thr
           ELSE IF IsRaised(arg)
           THEN /\ rx' = [rx EXCEPT !.call = Return(c)]
                /\ thr' = [thr EXCEPT ![c].reader = "td_empty"]
           ELSE /\ rx' = [rx EXCEPT
                            !.trans_fired[n] = Append(@, [handler |-> hs[i + 1], k |-> rx.call[c].k,
                                                          transaction |-> transaction_from_json(arg)]),
                            !.call = Step(c, "transaction", i + 1)]
                /\ UNCHANGED thr
    /\ UNCHANGED <<bc, peers, primary, handlers, fired, conn, net, hist, app, srv, boot, nfail>>

(***************************************************************************)
(* Receiving: node A with two connected peers of the environment, which    *)
(* send messages; A has registered a transaction callback and two block    *)
(* providers, the second of which knows A's start block                    *)
(***************************************************************************)
RegisteredRx ==
    [NoRx EXCEPT
        !.trans_receive_handlers["A"] = <<1>>,
        !.block_request_handlers["A"] = <<Provider(1, {}), Provider(2, {StartBlock("A")})>>]

InitRecv ==
    /\ TwoConnectedPeers
    /\ bc = NoChain
    /\ rx = RegisteredRx

NextRecv ==
    \/ \E c \in AllConnIds, item \in RemoteMessages : RemoteSend(c, item)
    \/ \E c \in AllConnIds : ReaderRecv(c)

SpecRecv == InitRecv /\ [][NextRecv]_vars


(***************************************************************************)
(* Handlers: node A as above; the reader of each connection hands the      *)
(* messages of its peer to the handlers of Protocol.received               *)
(***************************************************************************)
NextHandlers ==
    \/ \E c \in AllConnIds, item \in RemoteMessages : Parsed(c, item)
    \/ \E c \in AllConnIds :
          \/ ReceivedPeerLen(c)
          \/ ReceivedPeerScan(c)
          \/ ReceivedPeerConstruct(c)
          \/ ReceivedPeerAppend(c)
          \/ ReceivedGetblock(c)
          \/ ReceivedTransaction(c)

SpecHandlers == InitRecv /\ [][NextHandlers]_vars

(***************************************************************************)
(* Properties of one connection                                            *)
(***************************************************************************)
\* The thread that constructed c has appended it to the peer table
Appended(c) ==
    \A n \in Nodes : (boot[n].c = c => boot[n].pc = "done") /\ srv[n].c # c

\* Both loops of c were started and have ended: each thread has left the
\* close_on_error wrapper, by its end or by an exception
Ended == {"done", "raised"}
LoopsEnded(c) == thr[c].reader \in Ended /\ thr[c].run \in Ended

\* No caller is inside send_msg on c
NoSender(c) == \A n \in Nodes : ~(app[n].pc \in {"check", "put"} /\ app[n].cur = c)

\* The messages waiting on c's queue
Pending(c) == SelectSeq(conn[c].outgoing_msgs, LAMBDA item : item # NoneItem)

TornDown(c) ==
    /\ Pending(c) = <<>>
    /\ ~conn[c].is_connected
    /\ c \notin Range(peers[conn[c].proto])
    /\ conn[c].socket = "closed"

\* C2: a connection whose reader or writer loop has failed or ended reaches
\* the torn-down state: no pending message, not connected, absent from the
\* peer table, socket closed, both loops terminated.  Stated on the states
\* in which nothing more can happen to the connection: both threads have
\* ended, its creator has appended it and no caller is inside send_msg.
C2_TornDownWhenEnded ==
    \A c \in ConnIds : (LoopsEnded(c) /\ Appended(c) /\ NoSender(c)) => TornDown(c)

\* The handshake of c was aborted: recv returned something else than the
\* token (line 57), or a call of lines 54-56 raised
Aborted(c) == thr[c].run = "returned" \/ (thr[c].run = "raised" /\ thr[c].reader = "none")

\* C3: a connection is connected only after it received HELLO_MSG; a
\* connection whose handshake was aborted is closed (no open socket, not
\* left in the peer table), is not connected and has no reader or writer
\* loop.
C3_HandshakeGate ==
    \A c \in ConnIds :
        /\ conn[c].is_connected => thr[c].hello = HELLO_MSG
        /\ (Aborted(c) /\ Appended(c)) =>
              /\ ~conn[c].is_connected
              /\ thr[c].reader = "none"
              /\ conn[c].socket # "open"
              /\ c \notin Range(peers[conn[c].proto])

\* The messages run() has passed to send_msg so far (lines 60-62)
BootstrapSent(c) ==
    IF thr[c].run \in {"none", "run", "hello", "hs", "returned", "set_connected", "myport"}
       \/ Aborted(c)
    THEN 0
    ELSE IF thr[c].run = "block" THEN 1
    ELSE 2

\* C4: the first message on the queue of a connected connection is myport
\* with the listening port, the second is block, and nothing else precedes
\* them or comes between them.
C4_BootstrapFirst ==
    \A c \in ConnIds :
        LET a == hist[c].accepted IN
        /\ Len(a) >= 1 => a[1] = Msg("myport", JNum(ListenPort(conn[c].proto)))
        /\ Len(a) >= 2 => a[2].msg_type = "block"
        /\ thr[c].run \in {"set_connected", "myport", "block"} => Len(a) = BootstrapSent(c)

\* The messages the writer has taken off the queue: those written, and the
\* one it is writing
Taken(c) == hist[c].written \o (IF thr[c].run = "w_send" THEN <<thr[c].item>> ELSE <<>>)

\* C6: while the connection is connected, the frames written are the
\* messages send_msg accepted, in the order they were enqueued, each once:
\* what the writer has taken is a prefix of what was accepted.
C6_WrittenInOrder ==
    \A c \in ConnIds : conn[c].is_connected => IsPrefix(Taken(c), hist[c].accepted)

\* Thread th of c is in the close_on_error wrapper, lines 78-84, or has
\* left it
InWrapper(c, th) ==
    /\ thr[c].reader # "none"
    /\ thr[c][th] \in {"td_empty", "td_get", "td_put", "td_flag", "td_in", "td_remove",
                      "td_close", "done", "raised"}

\* C17: the teardown of lines 78-84, run by the reader's wrapper and by the
\* writer's, one after the other or overlapping, raises no error, and when
\* both have run the connection is in the state one run leaves: not
\* connected, absent from the peer table, socket closed, no pending message.
C17_TeardownIdempotent ==
    \A c \in ConnIds :
        (\A th \in Threads : InWrapper(c, th)) =>
            /\ \A th \in Threads : thr[c][th] # "raised"
            /\ (LoopsEnded(c) /\ Appended(c) /\ NoSender(c)) => TornDown(c)

(***************************************************************************)
(* Properties of the peer table                                            *)
(***************************************************************************)
\* C1: the peer table never holds more than MAX_PEERS connections.
C1_PeerCap == \A n \in Nodes : Len(peers[n]) <= MAX_PEERS

\* How often x occurs in s
Count(s, x) == Cardinality({i \in 1..Len(s) : s[i] = x})

\* C7: when the loop of broadcast_primary_block(block) has ended, the cached
\* snapshot is the block's encoding and every peer that was connected from
\* the start of the call to its end has been given the block message once;
\* when the call has returned, the last calls of the callbacks are one for
\* each registered callback, with the decoded block.
C7_BroadcastReachesAll ==
    \A n \in Nodes :
        /\ (app[n].op = "block" /\ app[n].pc = "callback") =>
              /\ primary[n] = app[n].arg
              /\ \A c \in app[n].start :
                    conn[c].is_connected => Count(app[n].sent, c) = 1
        /\ (app[n].op = "block" /\ app[n].pc = "idle") =>
              LET k == Len(handlers[n]) IN
              /\ Len(fired[n]) >= k
              /\ \A j \in 1..k :
                    fired[n][Len(fired[n]) - k + j] =
                        [handler |-> handlers[n][j], block |-> from_json_compatible(app[n].arg)]

\* c has finished: its handshake was aborted or its connect failed, or a
\* close_on_error wrapper of c is past the removal of lines 82-83
Finished(c) ==
    \/ Aborted(c)
    \/ \E th \in Threads : thr[c].reader # "none" /\ thr[c][th] \in {"td_close", "done"}

\* C20: a connection that has finished is never inserted into the peer
\* table: no step appends a connection after its handshake was aborted, its
\* connect failed or its own removal has run.
C20_NoInsertAfterFinish ==
    [][\A n \in Nodes : \A c \in ConnIds :
          (c \notin Range(peers[n]) /\ c \in Range(peers'[n])) => ~Finished(c)]_vars

(***************************************************************************)
(* Properties of Block.verify                                              *)
(***************************************************************************)
Decided == bc.result # "none"

\* C8: verify accepts a block of height 0 whose hash is GENESIS_BLOCK_HASH
\* and rejects every other block of height 0.
C8_GenesisAtHeightZero ==
    (Decided /\ bc.block.height = 0) =>
        /\ bc.block.hash = GENESIS_BLOCK_HASH => bc.result = "True"
        /\ bc.block.hash # GENESIS_BLOCK_HASH => bc.result # "True"

\* Every block of the chain after the first has its predecessor's hash as
\* prev_block_hash and its predecessor's height plus its own difficulty as
\* height.
ChainLinear ==
    \A i \in 2..Len(bc.blocks) :
        /\ bc.blocks[i].prev_block_hash = bc.blocks[i - 1].hash
        /\ bc.blocks[i].height = bc.blocks[i - 1].height + bc.blocks[i].difficulty

\* C9: verify_prev_block is true exactly when the block's prev_block_hash is
\* the head's hash, its difficulty is the chain's difficulty for the next
\* block and its height is the head's height plus its difficulty; verify
\* does not accept a block whose prev_block_hash is not the head's hash; and
\* the chain of accepted blocks is linear.
C9_PrevBlockIff ==
    /\ Decided =>
          /\ bc.checks.prev_block =
                (/\ bc.block.prev_block_hash = Last(bc.blocks).hash
                 /\ bc.block.difficulty = bc.difficulty_next
                 /\ bc.block.height = Last(bc.blocks).height + bc.block.difficulty)
          /\ bc.block.prev_block_hash # Last(bc.blocks).hash => bc.result # "True"
    /\ ChainLinear

\* A block that is not on the head of a chain of two blocks, and that only
\* verify_prev_block rejects, is not accepted.
C9_Witness ==
    /\ Decided
    /\ Len(bc.blocks) = 2
    /\ bc.block.prev_block_hash = GENESIS_BLOCK_HASH
    /\ bc.block.difficulty = bc.difficulty_next
    /\ bc.block.height = Last(bc.blocks).height + bc.block.difficulty
    /\ bc.checks = [difficulty |-> TRUE, merkle |-> TRUE, prev_block |-> FALSE,
                    transactions |-> TRUE, time |-> TRUE]
    /\ bc.result = "False"

Coinbases(transactions) == {i \in 1..Len(transactions) : transactions[i].inputs = <<>>}
CoinbaseUsed(transactions) ==
    LET t == transactions[CHOOSE i \in Coinbases(transactions) : TRUE]
    IN  SumSeq([k \in 1..Len(t.targets) |-> t.targets[k].amount])
FeesAndReward(transactions) ==
    SumSeq([i \in 1..Len(transactions) |-> transactions[i].fee]) + bc.blockreward_next
AllVerify(transactions) ==
    \A i \in 1..Len(transactions) :
        transaction_verify(transactions[i], bc, Range(transactions) \ {transactions[i]})

\* C10: verify_transactions rejects a block with two or more coinbase
\* transactions; with exactly one coinbase it rejects when the sum of the
\* coinbase's target amounts exceeds the fees of all transactions plus the
\* block reward, and accepts when the sum does not exceed it and every
\* transaction verifies.
C10_CoinbaseRules ==
    Decided =>
        LET txs == bc.block.transactions IN
        /\ Cardinality(Coinbases(txs)) >= 2 => ~bc.checks.transactions
        /\ Cardinality(Coinbases(txs)) = 1 =>
              /\ CoinbaseUsed(txs) > FeesAndReward(txs) => ~bc.checks.transactions
              /\ (CoinbaseUsed(txs) <= FeesAndReward(txs) /\ AllVerify(txs)) =>
                    bc.checks.transactions

\* A block whose only coinbase pays exactly the fees, which are not zero,
\* plus the reward passes verify_transactions.
C10_Witness ==
    /\ Decided
    /\ Cardinality(Coinbases(bc.block.transactions)) = 1
    /\ Len(bc.block.transactions) = 2
    /\ FeesAndReward(bc.block.transactions) > bc.blockreward_next
    /\ CoinbaseUsed(bc.block.transactions) = FeesAndReward(bc.block.transactions)
    /\ bc.checks.transactions

\* Two positions of the list hold transactions that spend a common input
SpendSameInput(transactions) ==
    \E i, j \in 1..Len(transactions) :
        /\ i # j
        /\ Range(transactions[i].inputs) \cap Range(transactions[j].inputs) # {}

\* C11: verify_transactions rejects a block in which the transactions at two
\* positions spend the same input, also when the two entries are the same
\* transaction listed twice.
C11_DoubleSpendRejected ==
    (Decided /\ SpendSameInput(bc.block.transactions)) => ~bc.checks.transactions

\* The five checks in the order of line 201-202
CheckOrder == <<"difficulty", "merkle", "prev_block", "transactions", "time">>
AllChecks == \A i \in 1..Len(CheckOrder) : bc.checks[CheckOrder[i]]

\* verify has run on a block whose hash the chain does not know
VerifiedUnknown == Decided /\ bc.result # "AssertionError" /\ AssertUnknown(bc.block, bc)

\* The checks verify has evaluated are the first checks of CheckOrder, and
\* each of them but the last has returned True
InOrderShortCircuit ==
    /\ Len(bc.evaluated) <= Len(CheckOrder)
    /\ \A i \in 1..Len(bc.evaluated) :
          /\ bc.evaluated[i] = CheckOrder[i]
          /\ i < Len(bc.evaluated) => bc.checks[CheckOrder[i]]

\* The step is a call of verify
VerifyStep == bc.result = "none" /\ bc'.result # "none"
ChainUnchanged ==
    /\ bc'.blocks = bc.blocks
    /\ bc'.difficulty_next = bc.difficulty_next
    /\ bc'.blockreward_next = bc.blockreward_next
    /\ bc'.block.hash = _get_hash(bc'.block.prev_block_hash, bc'.block.merkle_root_hash,
                                 bc'.block.time, bc'.block.difficulty, bc'.block.nonce)

\* C18 as stated: for a block whose hash the chain does not know, verify
\* returns true exactly when verify_difficulty, verify_merkle,
\* verify_prev_block, verify_transactions and verify_time all return true;
\* the checks are evaluated in that order, none after the first that fails;
\* and verify changes neither the block nor the chain.
C18_TrueIffAllChecks ==
    [][VerifyStep =>
          /\ ChainUnchanged
          /\ VerifiedUnknown' =>
                /\ (bc'.result = "True") = AllChecks'
                /\ InOrderShortCircuit']_vars

\* C18, amended: for a block whose hash the chain does not know, verify
\* returns true exactly when the block's height is not 0 and the five checks
\* all return true; the checks it evaluates are evaluated in the order
\* verify_difficulty, verify_merkle, verify_prev_block, verify_transactions,
\* verify_time, none after the first that fails, and all five when it
\* returns true; and verify changes neither the block nor the chain.
C18_TrueIffNonZeroAndAllChecks ==
    [][VerifyStep =>
          /\ ChainUnchanged
          /\ VerifiedUnknown' =>
                /\ (bc'.result = "True") = (bc'.block.height # 0 /\ AllChecks')
                /\ InOrderShortCircuit'
                /\ bc'.result = "True" => bc'.evaluated = CheckOrder]_vars

\* A block of height 0 that is not the genesis block and passes the five
\* checks, on a chain whose next difficulty is 0: verify returns False
\* without having evaluated a check.
C18_Witness ==
    /\ VerifiedUnknown
    /\ bc.block.height = 0
    /\ AllChecks
    /\ bc.evaluated = <<>>
    /\ bc.result = "False"

\* The time line 86-88 give a block created with ts on the chain
CreatedTime(ts) ==
    LET given == IF ts = NoneItem THEN utcnow ELSE ts
    IN  IF dt_gt(given, Last(bc.blocks).time) THEN given
        ELSE dt_add(Last(bc.blocks).time, timedelta(0, 1))

\* C19: Block.create builds a block whose prev_block_hash is the head's hash,
\* whose difficulty is the chain's difficulty for the next block, whose
\* height is the head's height plus that difficulty and whose time is after
\* the head's time: the ts given (the current time when none is given) if
\* it is after the head's time, the head's time plus one microsecond if not.
\* The block passes verify_prev_block, verify_merkle and the comparison of
\* verify_time with the head's time, and the times of a chain built from
\* created blocks increase strictly.
C19_CreateOnHead ==
    /\ \A ts \in Timestamps(bc), transactions \in {<<>>, <<Spend1>>} :
          LET block == create(bc, transactions, ts) IN
          /\ block.prev_block_hash = Last(bc.blocks).hash
          /\ block.difficulty = bc.difficulty_next
          /\ block.height = Last(bc.blocks).height + bc.difficulty_next
          /\ block.time = CreatedTime(ts)
          /\ dt_gt(block.time, Last(bc.blocks).time)
    /\ Decided =>
          /\ bc.checks.prev_block
          /\ bc.checks.merkle
          /\ dt_gt(bc.block.time, Last(bc.blocks).time)
    /\ \A i \in 2..Len(bc.blocks) : dt_gt(bc.blocks[i].time, bc.blocks[i - 1].time)

\* A block created with no ts, on a chain of created blocks whose head has
\* the current time: its time is the head's time plus one microsecond
C19_Witness ==
    /\ Decided
    /\ Len(bc.blocks) > 1
    /\ Last(bc.blocks).time = utcnow
    /\ bc.block.time = dt_add(utcnow, timedelta(0, 1))
    /\ bc.block.height = Last(bc.blocks).height + bc.difficulty_next
    /\ bc.checks.time

(***************************************************************************)
(* Properties of two connected nodes                                      *)
(***************************************************************************)
\* A block-received callback of node n has been called with a block of
\* this hash
BlockFired(n, hash) == \E k \in 1..Len(fired[n]) : fired[n][k].block.hash = hash

\* B has connected to A, A has made its broadcasts, and on both ends of
\* the connection every message is written and every byte that arrived is
\* read: no thread of A or B can take a step before more bytes arrive or
\* a recv times out.
AllQuiet ==
    /\ boot["B"].pc = "done"
    /\ srv["A"].pc = "idle" /\ srv["A"].backlog = <<>>
    /\ app["A"].pc = "idle" /\ app["A"].calls = MaxOps
    /\ \E a, b \in ConnIds :
          /\ conn[a].proto = "A" /\ conn[b].proto = "B" /\ net[a].link = b
          /\ \A c \in {a, b} :
                /\ conn[c].is_connected /\ conn[c].socket = "open"
                /\ thr[c].run = "w_get" /\ conn[c].outgoing_msgs = <<>>
                /\ thr[c].reader = "recv" /\ net[c].inbox = <<>>

\* C5: B's block-received callback eventually fires with A's primary block
\* and with every block A broadcasts afterwards, while the connection stays
\* open: once all is quiet, the callback has fired with the start block of
\* A or a later one, and with the block A has broadcast last.
C5_EndToEnd ==
    AllQuiet =>
        /\ \E block \in {StartBlock("A")} \cup NewBlocks("A") : BlockFired("B", block.hash)
        /\ \A block \in NewBlocks("A") :
              primary["A"] = to_json_compatible(block) => BlockFired("B", block.hash)

(***************************************************************************)
(* Properties of the receiving side                                        *)
(***************************************************************************)
\* The bytes of the frames of a list of messages
RECURSIVE Frames(_)
Frames(items) == IF items = <<>> THEN <<>> ELSE Frame(items[1]) \o Frames(Tail(items))

\* Every byte that the remote end of c has sent was read by c's reader,
\* which waits for more, no handler call in progress
AllRead(c) ==
    /\ RemoteIsEnv(c)
    /\ conn[c].is_connected
    /\ thr[c].reader = "recv"
    /\ net[c].inbox = <<>>
    /\ ~Receiving(c)

\* C12: when a myport message with port p was received on a connection whose
\* remote address is (host, q), the connection's peer_addr is (host, p), the
\* port being that of the last myport message.
C12_MyportSetsPeerAddr ==
    \A c \in ConnIds :
        LET myports == SelectSeq(SentTo(c), LAMBDA m : m.msg_type = "myport") IN
        (AllRead(c) /\ myports # <<>>) =>
            conn[c].peer_addr =
                [tuple |-> PyAddr(<<conn[c]._sock_addr[1], Last(myports).msg_param.num>>)]

\* The first provider of node n, in registration order, that returns a block
\* for the hash a getblock message names, or 0
FirstAnswer(n, m) ==
    LET hs == rx.block_request_handlers[n]
        answers == {k \in 1..Len(hs) : provider_call(hs[k], unhexlify(m.msg_param.jstr)) # NoneItem}
    IN  IF answers = {} THEN 0 ELSE CHOOSE k \in answers : \A j \in answers : k <= j

\* The block messages that answer the getblock requests received on c, and
\* the providers consulted for them
Replies(c) ==
    LET n == conn[c].proto
        answered == SelectSeq(SentTo(c),
                        LAMBDA m : m.msg_type = "getblock" /\ FirstAnswer(n, m) # 0)
    IN  [k \in 1..Len(answered) |->
            Msg("block", to_json_compatible(
                provider_call(rx.block_request_handlers[n][FirstAnswer(n, answered[k])],
                              unhexlify(answered[k].msg_param.jstr))))]
RECURSIVE Consulted(_, _)
Consulted(n, requests) ==
    IF requests = <<>> THEN <<>>
    ELSE LET k == FirstAnswer(n, requests[1])
             last == IF k = 0 THEN Len(rx.block_request_handlers[n]) ELSE k
         IN  [i \in 1..last |-> rx.block_request_handlers[n][i].id]
                 \o Consulted(n, Tail(requests))

\* C15: for the getblock requests received from a peer, the providers are
\* consulted in registration order up to the first that returns a block, one
\* block message with that block is enqueued to that peer for each request
\* that has an answer, and nothing else is enqueued to any peer.
C15_GetblockFirstProvider ==
    \A c \in ConnIds :
        AllRead(c) =>
            /\ hist[c].accepted = FirstMessages(conn[c].proto) \o Replies(c)
            /\ SelectSeq(rx.consulted[conn[c].proto], LAMBDA e : e.c = c)
                  = [k \in 1..Len(Consulted(conn[c].proto,
                                     SelectSeq(SentTo(c), LAMBDA m : m.msg_type = "getblock"))) |->
                        [c |-> c,
                         id |-> Consulted(conn[c].proto,
                                     SelectSeq(SentTo(c), LAMBDA m : m.msg_type = "getblock"))[k]]]

\* C16: the bytes the writer loop produces for a list of messages are parsed
\* by the reader loop into the same messages, one per frame, in order; when
\* every byte was read the reader is at the start of a frame.
C16_FramingRoundTrip ==
    \A c \in ConnIds :
        AllRead(c) =>
            /\ reader_thread(Frames(SentTo(c)), RemoteMessages, <<>>)
                  = [at |-> "recv", buf |-> <<>>, parsed |-> SentTo(c)]
            /\ thr[c].buf = <<>>

\* The handling of the k-th message received has ended
Handled(k) == \A c \in DOMAIN rx.call : rx.call[c].k # k

\* Before the k-th message was received, a connection of n's peer table had
\* reported, through myport, the port of address a on the host of a
KnownBefore(n, a, k) ==
    \E c \in Range(peers[n]) :
        /\ conn[c]._sock_addr[1] = a[1]
        /\ \E j \in 1..(k - 1) :
              /\ rx.remote[j].c = c
              /\ rx.remote[j].item = Msg("myport", JNum(a[2]))

\* The connections opened for the k-th message
OpenedFor(k) == {e \in Range(rx.opened) : e.k = k}

\* C13: a peer message with address a opens a connection to a, which is
\* appended to the peer table, if and only if no connection of the table has
\* advertised a and capacity remains: once a peer at (host, p) has reported
\* its port through myport, a later peer message naming (host, p) opens no
\* connection.
C13_PeerOpensIffUnknown ==
    \A k \in 1..Len(rx.remote) :
        LET m == rx.remote[k]
            n == conn[m.c].proto
            a == <<m.item.msg_param.list[1], m.item.msg_param.list[2]>>
        IN  (m.item.msg_type = "peer" /\ Handled(k) /\ Len(peers[n]) < MAX_PEERS) =>
                IF KnownBefore(n, a, k) THEN OpenedFor(k) = {}
                ELSE /\ Cardinality(OpenedFor(k)) = 1
                     /\ \A e \in OpenedFor(k) :
                           e.d \in Range(peers[n]) /\ conn[e.d]._sock_addr = a

\* C14: a transaction message is decoded and handed to every registered
\* transaction-received callback once, and the connection it arrived on is
\* not torn down.
C14_TransactionDelivered ==
    \A k \in 1..Len(rx.remote) :
        LET m == rx.remote[k]
            n == conn[m.c].proto
            hs == rx.trans_receive_handlers[n]
            calls == rx.trans_fired[n]
        IN  (m.item.msg_type = "transaction" /\ Handled(k)) =>
                /\ \A h \in 1..Len(hs) :
                      Cardinality({i \in 1..Len(calls) :
                          calls[i] = [handler |-> hs[h], k |-> k,
                                      transaction |-> transaction_from_json(m.item.msg_param)]}) = 1
                /\ thr[m.c].reader = "recv"
                /\ conn[m.c].is_connected

====
